---- MODULE Spec2Model ----
(***************************************************************************)
(* Control-flow model of the pure-Python Radau IIA integrators             *)
(* _Radau5ODE and _Radau5DAE (src/src/solvers/radau5.py): the stepping     *)
(* loop of step_generator, the accept/reject loop of _step, the outer      *)
(* restart loop of newton, the step-size controller adjust_stepsize and    *)
(* the Jacobian/LU reuse flags.                                            *)
(*                                                                         *)
(* Numbers.  Step sizes, times and all controller quantities are exact     *)
(* rationals [n |-> numerator, d |-> denominator], d > 0, in lowest terms; *)
(* [n |-> 1, d |-> 0] is +infinity (numpy.inf, the default of maxh).       *)
(* Times and step sizes are measured in units of the machine epsilon       *)
(* self._eps, so that eps is the rational 1: the controller only ever      *)
(* compares h with eps, maxh and tf - t and scales it by dimensionless     *)
(* factors, so the unit does not change any decision.                      *)
(*                                                                         *)
(* Environment.  What depends on the user's right-hand side (how a Newton  *)
(* attempt ends, at which iteration, with which contraction factor; the    *)
(* value of the error estimate) is an input of the action, drawn from a    *)
(* small set.  What the code computes from those inputs is computed.       *)
(*                                                                         *)
(* Wrappers.  A behaviour follows either the Python integrators or the     *)
(* classes Radau5ODE / Radau5DAE around the compiled solvers (variable     *)
(* solver): their options, initialize and integrate, with the compiled     *)
(* solver's run as an input (its flag and the callback that failed), and   *)
(* the option maxsteps of ODE (src/src/ode.py).                            *)
(***************************************************************************)
EXTENDS Integers, FiniteSets, Sequences, TLC

-----------------------------------------------------------------------------
(* Exact rational arithmetic standing for the float arithmetic of the code *)

IAbs(x) == IF x < 0 THEN -x ELSE x

RECURSIVE Gcd(_, _)
Gcd(a, b) == IF b = 0 THEN a ELSE Gcd(b, a % b)

Inf == [n |-> 1, d |-> 0]

R(num, den) ==
    IF den = 0 THEN Inf
    ELSE LET g == Gcd(IAbs(num), den)
         IN  [n |-> num \div g, d |-> den \div g]

IsInf(a) == a.d = 0

RInv(a) == IF a.n > 0 THEN [n |-> a.d, d |-> a.n] ELSE [n |-> -a.d, d |-> -a.n]

RMul(a, b) ==
    LET g1 == Gcd(IAbs(a.n), b.d)
        g2 == Gcd(IAbs(b.n), a.d)
    IN  R((a.n \div g1) * (b.n \div g2), (a.d \div g2) * (b.d \div g1))

RDiv(a, b) == RMul(a, RInv(b))

RAdd(a, b) ==
    LET g == Gcd(a.d, b.d)
    IN  R(a.n * (b.d \div g) + b.n * (a.d \div g), (a.d \div g) * b.d)

RNeg(a) == [n |-> -a.n, d |-> a.d]

RSub(a, b) == RAdd(a, RNeg(b))

RAbs(a) == [n |-> IAbs(a.n), d |-> a.d]

RLt(a, b) ==
    IF IsInf(a) THEN FALSE
    ELSE IF IsInf(b) THEN TRUE
    ELSE LET g == Gcd(a.d, b.d)
         IN  a.n * (b.d \div g) < b.n * (a.d \div g)

RLe(a, b) == ~RLt(b, a)

RMin(a, b) == IF RLt(b, a) THEN b ELSE a

RMax(a, b) == IF RLt(a, b) THEN b ELSE a

RECURSIVE RPowNat(_, _)
RPowNat(a, e) == IF e = 0 THEN R(1, 1) ELSE RMul(a, RPowNat(a, e - 1))

RPow(a, e) == IF e >= 0 THEN RPowNat(a, e) ELSE RPowNat(RInv(a), -e)

-----------------------------------------------------------------------------
(* Bounds of the model                                                     *)

\* calls of step_generator or integrate made on one solver
MaxCalls == 2
\* accepted steps taken on one solver
MaxSteps == 2
\* error-test rejections plus failed Newton passes a regular problem
\* produces on one solver
MaxDisturbances == 2

-----------------------------------------------------------------------------
(* Program constants                                                       *)

\* self._eps; times and step sizes are measured in units of it
eps == R(1, 1)

\* for k in range(20): outer restarts of newton()
NewtonRestarts == 20

-----------------------------------------------------------------------------
(* Inputs                                                                  *)

\* fourth roots of the error estimates the environment produces
ErrRoots == {R(1, 2), R(1, 1), R(3, 2)}

Errs == {RPow(q, 4) : q \in ErrRoots}

\* x ** 0.25 on the values whose fourth root is rational
Pow025(x) == CHOOSE q \in ErrRoots : RPow(q, 4) = x

\* contraction factors theta observed at the iteration that ends an attempt
Thetas == {R(1, 8), R(1, 1)}

\* fac_con * newnrm / fnewt at the iteration that ends an attempt
Ratios == {R(1, 16), R(1, 1), R(2, 1)}

\* qnewt ** (-1/m): the values of dyth fed in are the m-th powers of 1/s
SlowRoots == {R(1, 1), R(1, 2)}

\* final times handed to step_generator, in units of eps
TfFirst == {R(0, 1), R(4, 1), R(16, 1)}

TfMore == {R(8, 1)}

-----------------------------------------------------------------------------
(* Options (self.options) and the solver variants                          *)

\* the defaults set by __init__; inith and maxsteps are chosen small
Defaults ==
    [inith |-> R(16, 1), maxh |-> Inf, maxsteps |-> 2, newt |-> 7,
     thet |-> R(1, 1000), quot1 |-> R(1, 1), quot2 |-> R(6, 5),
     fac1 |-> R(1, 5), fac2 |-> R(8, 1), safe |-> R(9, 10),
     fnewt |-> R(0, 1)]

\* the option settings a behaviour starts from
OptionSets ==
    { Defaults,
      [Defaults EXCEPT !.maxh = R(3, 2), !.thet = R(-1, 1), !.maxsteps = 1,
                       !.fnewt = R(10000000, 1)],
      [Defaults EXCEPT !.quot1 = R(1, 2), !.thet = Inf],
      [Defaults EXCEPT !.newt = 1, !.thet = R(1, 4),
                       !.fac1 = R(2, 3), !.fac2 = R(3, 2)] }

Kinds == {"ODE", "DAE"}

\* opts["output_list"]: the communication points, in units of eps
output_list ==
    <<R(0, 1), R(4, 1), R(8, 1), R(16, 1), R(20, 1), R(24, 1), R(32, 1)>>

\* values of rtol: 1e-6, the default, and 1e-4
RtolValues == {R(1, 1000000), R(1, 10000)}

\* numpy.finfo('double').eps in units of 1e-9, with 2.2e-16 rounded to 2e-16:
\* 10*eps/rtol stays several orders below the other operand of the max
EpsDouble == R(1, 5000000)

\* rtol**0.5 in units of 1e-9, on the values of rtol above
Sqrt(r) == IF r = R(1, 1000000) THEN R(1000000, 1) ELSE R(10000000, 1)

\* max(10.*self._eps/self.rtol, min(0.03, self.rtol**0.5)) in units of 1e-9
AutoFnewt(r) ==
    RMax(RDiv(RMul(R(10, 1), EpsDouble), r), RMin(R(30000000, 1), Sqrt(r)))

\* self.problem_info["dim"]
Dim == 1

\* self.rad_memory before initialize
NoMemory == [state |-> "none", sparseLU |-> 0]

\* values assigned to linear_solver: strings and the int 5
LinearSolverInputs ==
    {[str |-> TRUE, v |-> x] : x \in {"DENSE", "dense", "SPARSE", "Sparse", "klu"}}
        \cup {[str |-> FALSE, v |-> "5"]}

\* values assigned to maxsteps: ints and the float 5.0
MaxStepsInputs ==
    {[int |-> TRUE, v |-> x] : x \in {-3, 0, 1, 5}} \cup {[int |-> FALSE, v |-> 5]}

\* returns of the calls into rad_memory during initialize
InitReturns == {0, -1, -3}

\* the local variable flag of integrate before the solver has returned
NoFlag == [set |-> FALSE, raw |-> 0, status |-> "none"]

\* radau5_args before the compiled solver has been called
NoArgs == [IJAC |-> 0, jac |-> "none"]

\* solout_call of a method that has not called _solout
NoSolout == [flag |-> "none", ret |-> 0]

\* what _solout meets in a call: the flag event_locator returns ("negative"
\* for any flag < 0), opts["report_continuously"], and what report_solution
\* does when it is called: it returns a false or a true initialize_flag or
\* raises TimeLimitExceeded
SoloutCalls ==
    {so \in [flag : {"ID_PY_OK", "ID_PY_EVENT", "negative"},
             rc : BOOLEAN,
             report : {"False", "True", "TimeLimitExceeded"}] :
        ~so.rc => so.report = "False"}

\* the exception object raised by a callback of the user during the n-th
\* call of integrate
UserError(n) == <<"UserError#1", "UserError#2", "UserError#3", "UserError#4">>[n]

\* a run of the compiled solver: the flag it returns and the callback that
\* failed with a non-recoverable exception, if any.  Recoverable failures
\* are dealt with inside the solver and end in one of the flags.
RunsODE ==
    {[flag |-> f, fails |-> "none"] : f \in {0, 1, 2, -3}}
        \cup {[flag |-> -10, fails |-> c] : c \in {"rhs", "jac", "state_events", "solout"}}

RunsDAE ==
    {[flag |-> f, fails |-> "none"] : f \in {0, 1, 2, -3}}
        \cup {[flag |-> -5, fails |-> "res"]}

\* the Python implementation (_Radau5ODE, _Radau5DAE) or the wrappers of the
\* compiled one (Radau5ODE, Radau5DAE)
Solvers == {"_Radau5", "Radau5"}

\* jac_fcn_nnz as found in problem_info: an int, or the float 2.0; the
\* dimension of the problem is 1
NnzValues ==
    {[int |-> FALSE, v |-> 2]} \cup {[int |-> TRUE, v |-> x] : x \in {-2, -1, 0, 2, 3}}

\* the user's problem as Radau5ODE / Radau5DAE see it
ProblemInfos ==
    [jac_fcn : BOOLEAN, jac : BOOLEAN, jac_fcn_nnz : NnzValues,
     state_events : BOOLEAN]

\* the problem of a behaviour that follows _Radau5ODE / _Radau5DAE
NoProblem ==
    [jac_fcn |-> FALSE, jac |-> FALSE, jac_fcn_nnz |-> [int |-> TRUE, v |-> -1],
     state_events |-> FALSE]

\* the user's problem: on a "divergent" one every Newton pass diverges, a
\* "regular" one has at most MaxDisturbances rejected or failed attempts
Problems == {"regular", "divergent"}

\* iterations at which the environment lets a Newton attempt end
IterChoices(newt) == {1, newt}

-----------------------------------------------------------------------------
(* State                                                                   *)

VARIABLES
    kind,        \* "ODE": _Radau5ODE, "DAE": _Radau5DAE
    problem,     \* the behaviour of the user's right-hand side
    options,     \* self.options
    pc,          \* position of the step_generator coroutine
    error,       \* the exception that ended the call, "none" if none
    t, tf,       \* locals t and tf of step_generator
    h,           \* self.h
    oldh,        \* self._oldh
    oldoldh,     \* self._oldoldh
    hacc,        \* self._hacc
    err,         \* self._err
    olderr,      \* self._olderr
    theta,       \* self._theta
    curiter,     \* self._curiter
    first,       \* self._first
    rejected,    \* self._rejected
    curjac,      \* self._curjac
    needjac,     \* self._needjac
    needLU,      \* self._needLU
    itfail,      \* self._itfail
    i,           \* loop variable of "for i in range(self.maxsteps)"
    k,           \* loop variable of "for k in range(20)" in newton
    statistics,  \* self.statistics
    oldt,        \* self._oldt
    tnew,        \* self._newt
    tc,          \* self._tc
    calls,       \* calls of step_generator so far
    attempts,    \* step attempts finished in this call
    taken,       \* steps accepted in this call
    yc,          \* self._yc: the solution after that many accepted steps
    col_poly,    \* self._col_poly: built from the Z of that accepted step
    solver,      \* "_Radau5": the Python classes, "Radau5": the compiled ones
    problem_info,\* self.problem_info and what self.problem provides
    linear_solver, \* self.options["linear_solver"]
    usejac,      \* self.options["usejac"]
    rad_memory,  \* self.rad_memory
    py_err,      \* self._py_err
    flag,        \* the status integrate returned
    max_steps,   \* ODE.__max_steps
    method,      \* the method of Radau5ODE / Radau5DAE / ODE called last
    logged,      \* what that call passed to self.log_message
    user_exc,    \* the exception a callback of the user raised in that call
    Z,           \* self._Z: what the array holds
    scaling,     \* divisions by h**(index-1) applied to self._scaling in this step
    rtol,        \* self.rtol
    fnewt,       \* self.fnewt, in units of 1e-9; 0: to be set automatically
    opts,        \* the opts handed to the running call of step_generator
    output_index, \* local output_index of integrate
    tlist,       \* the points integrate has returned so far, with how each was interpolated
    radau5_args, \* IJAC and the jac function of the last call of the compiled solver
    LU,          \* the h and the Jacobian the stored LU factors were computed with
    solout_call, \* the last call of Radau5ODE._solout in the method just run: event flag and return
    f0           \* self._f0: the time and the solution the right-hand side was last evaluated at

vars ==
    <<kind, problem, options, pc, error, t, tf, h, oldh, oldoldh, hacc, err, olderr,
      theta, curiter, first, rejected, curjac, needjac, needLU, itfail, i, k,
      statistics, oldt, tnew, tc, calls, attempts, taken, yc, col_poly,
      solver, problem_info, linear_solver, usejac, rad_memory, py_err, flag,
      max_steps, method, logged, user_exc,
      Z,
      scaling,
      rtol,
      fnewt,
      opts,
      output_index,
      tlist,
      radau5_args,
      LU,
      solout_call,
      f0>>

\* the state of Radau5ODE / Radau5DAE that _Radau5ODE / _Radau5DAE do not have
wvars ==
    <<solver, problem_info, linear_solver, usejac, rad_memory, py_err, flag,
      max_steps, method, logged, user_exc,
      radau5_args,
      solout_call>>

\* the state of _Radau5ODE / _Radau5DAE that the wrappers do not have
pyvars ==
    <<problem, options, t, tf, h, oldh, oldoldh, hacc, err, olderr, theta,
      curiter, first, rejected, curjac, needjac, needLU, itfail, i, k, oldt,
      tnew, tc, attempts, taken, yc, col_poly,
      Z,
      scaling,
      rtol,
      fnewt,
      opts,
      output_index,
      tlist,
      LU,
      f0>>

\* the state after __init__ (and the option assignments that follow it)
Init ==
    /\ solver \in Solvers
    /\ kind \in Kinds
    /\ problem \in IF solver = "_Radau5" THEN Problems ELSE {"regular"}
    /\ options \in IF solver = "_Radau5" THEN OptionSets ELSE {Defaults}
    /\ pc = IF solver = "_Radau5" THEN "idle" ELSE "constructed"
    /\ error = "none"
    /\ t = R(0, 1)
    /\ tf = R(0, 1)
    /\ h = R(0, 1)
    /\ oldh = R(0, 1)
    /\ oldoldh = R(0, 1)
    /\ hacc = R(0, 1)
    /\ err = R(0, 1)
    /\ olderr = R(1, 1)
    /\ theta = R(0, 1)
    /\ curiter = 0
    /\ first = TRUE
    /\ rejected = TRUE
    /\ curjac = FALSE
    /\ needjac = TRUE
    /\ needLU = TRUE
    /\ itfail = FALSE
    /\ i = 0
    /\ k = 0
    /\ statistics = [nsteps |-> 0, nerrfails |-> 0, nnfails |-> 0,
                     njacs |-> 0, nlus |-> 0]
    /\ oldt = R(0, 1)
    /\ tnew = R(0, 1)
    /\ tc = R(0, 1)
    /\ calls = 0
    /\ attempts = 0
    /\ taken = 0
    /\ yc = 0
    /\ col_poly = 0
    /\ problem_info \in IF solver = "_Radau5" THEN {NoProblem} ELSE ProblemInfos
    /\ linear_solver = "DENSE"
    /\ usejac = problem_info.jac_fcn
    /\ rad_memory = NoMemory
    /\ py_err = "None"
    /\ flag = NoFlag
    /\ max_steps = [int |-> TRUE, v |-> 10000]
    /\ method = "__init__"
    /\ logged = "nothing"
    /\ user_exc = "None"
    /\ Z = [what |-> "unset", of |-> 0]
    /\ scaling = 0
    /\ rtol = R(1, 1000000)
    /\ fnewt = options.fnewt
    /\ opts = [initialize |-> FALSE, output_index |-> 0]
    /\ output_index = 0
    /\ tlist = <<>>
    /\ radau5_args = NoArgs
    /\ LU = [h |-> R(0, 1), jac |-> 0]
    /\ solout_call = NoSolout
    /\ f0 = [t |-> R(0, 1), y |-> 0]

-----------------------------------------------------------------------------
(* adjust_stepsize                                                         *)

\* fac = min(safe, safe*(2*newt+1)/(2*newt+curiter))
Fac ==
    RMin(options.safe,
         RMul(options.safe, R(2 * options.newt + 1, 2 * options.newt + curiter)))

\* the clamp without its lower limit 1/fac2
ClampMut(x) == RMin(RInv(options.fac1), x)

\* max(1/fac2, min(1/fac1, x))
Clamp(x) == RMax(RInv(options.fac2), RMin(RInv(options.fac1), x))

\* quot = max(1/fac2, min(1/fac1, err**0.25/fac))
Quot(e) == Clamp(RDiv(Pow025(e), Fac))

\* facgus = (hacc/h)*(err**2/olderr)**0.25/safe, clamped
Facgus(e) ==
    Clamp(RDiv(RMul(RDiv(hacc, h),
                    RDiv(RMul(Pow025(e), Pow025(e)), Pow025(olderr))),
               options.safe))

\* h before the hysteresis test
HProposed(e, predict) ==
    IF predict /\ ~first
    THEN RDiv(h, RMax(Quot(e), Facgus(e)))
    ELSE RDiv(h, Quot(e))

\* if (qt >= quot1) and (qt <= quot2): h = self.h
Hysteresis(hp) ==
    LET qt == RDiv(hp, h)
    IN  IF RLe(options.quot1, qt) /\ RLe(qt, options.quot2) THEN h ELSE hp

\* if h > maxh: h = maxh
Ceiling(x) == IF RLt(options.maxh, x) THEN options.maxh ELSE x

\* if self._first and err >= 1.0: h = self.h/10.
FirstRule(e, x) == IF first /\ RLe(R(1, 1), e) THEN RDiv(h, R(10, 1)) ELSE x

\* _Radau5ODE.adjust_stepsize: the eps test precedes the maxh ceiling
AdjustODE(e, predict) ==
    LET x == FirstRule(e, Hysteresis(HProposed(e, predict)))
    IN  [raise |-> RLt(x, eps), h |-> Ceiling(x)]

\* _Radau5DAE.adjust_stepsize: the maxh ceiling precedes the first-step rule
AdjustDAE(e, predict) ==
    LET x == FirstRule(e, Ceiling(Hysteresis(HProposed(e, predict))))
    IN  [raise |-> RLt(x, eps), h |-> x]

adjust_stepsize(e, predict) ==
    IF kind = "ODE" THEN AdjustODE(e, predict) ELSE AdjustDAE(e, predict)

-----------------------------------------------------------------------------
(* rtol                                                                    *)

\* an assignment to rtol between two calls of step_generator, made on a
\* solver with the default options before another call
set_rtol(r) ==
    /\ solver = "_Radau5"
    /\ pc = "complete"
    /\ options = Defaults
    /\ problem = "regular"
    /\ calls < MaxCalls
    /\ rtol # r
    /\ rtol' = r
    /\ UNCHANGED <<kind, problem, options, pc, error, t, tf, h, oldh, oldoldh, hacc,
                   err, olderr, theta, curiter, first, rejected, curjac, needjac,
                   needLU, itfail, i, k, statistics, oldt, tnew, tc, calls,
                   attempts, taken, yc, col_poly, Z, scaling, fnewt, opts,
                   output_index, tlist, LU, f0>>
    /\ UNCHANGED wvars

-----------------------------------------------------------------------------
(* step_generator: entry and the loop "for i in range(self.maxsteps)"      *)

\* step_generator up to the loop head.  The first call on a solver has
\* opts["initialize"] set; a later call continues from the solver's t.
StepGeneratorStart(initialize, newtf) ==
    /\ pc \in {"idle", "complete"}
    /\ calls < MaxCalls
    /\ pc = "idle" => initialize
    /\ h' = IF initialize THEN options.inith ELSE h
    /\ oldh' = IF initialize THEN options.inith ELSE oldh
    /\ tf' = newtf
    /\ tc' = t
    /\ yc' = statistics.nsteps
    /\ i' = 0
    /\ pc' = "for"
    /\ calls' = calls + 1
    /\ attempts' = 0
    /\ taken' = 0
    /\ UNCHANGED <<kind, problem, options, error, t, oldoldh, hacc, err, olderr, theta,
                   curiter, first, rejected, curjac, needjac, needLU, itfail,
                   k, statistics, oldt, tnew, col_poly>>
    /\ UNCHANGED <<Z>>
    /\ UNCHANGED <<scaling>>
    /\ UNCHANGED <<rtol>>
    /\ fnewt' = IF fnewt = R(0, 1) THEN AutoFnewt(rtol) ELSE fnewt
    /\ opts' = [opts EXCEPT !.initialize = initialize]
    /\ output_index' = opts.output_index
    /\ UNCHANGED <<tlist>>
    /\ UNCHANGED <<LU>>
    /\ f0' = [t |-> t, y |-> yc']
    /\ UNCHANGED wvars

\* the loop ran maxsteps times without reaching the break: the else clause
MaxStepsRaise ==
    /\ pc = "for"
    /\ i >= options.maxsteps
    /\ pc' = "error"
    /\ error' = "maxsteps"
    /\ UNCHANGED <<kind, problem, options, t, tf, h, oldh, oldoldh, hacc, err, olderr,
                   theta, curiter, first, rejected, curjac, needjac, needLU,
                   itfail, i, k, statistics, oldt, tnew, tc, calls, attempts, taken>>
    /\ UNCHANGED <<yc, col_poly>>
    /\ UNCHANGED <<Z>>
    /\ UNCHANGED <<scaling>>
    /\ UNCHANGED <<rtol>>
    /\ UNCHANGED <<fnewt>>
    /\ UNCHANGED <<opts>>
    /\ UNCHANGED <<output_index>>
    /\ UNCHANGED <<tlist>>
    /\ UNCHANGED <<LU>>
    /\ UNCHANGED <<f0>>
    /\ UNCHANGED wvars

\* an iteration with t < tf: _step is entered, newton is called
StepEnter ==
    /\ pc = "for"
    /\ i < options.maxsteps
    /\ RLt(t, tf)
    /\ statistics.nsteps < MaxSteps
    /\ pc' = "newton"
    /\ k' = 0
    /\ UNCHANGED <<kind, problem, options, error, t, tf, h, oldh, oldoldh, hacc, err,
                   olderr, theta, curiter, first, rejected, curjac, needjac,
                   needLU, itfail, i, statistics, oldt, tnew, tc, calls,
                   attempts, taken>>
    /\ UNCHANGED <<yc, col_poly>>
    /\ UNCHANGED <<Z>>
    /\ scaling' = 0
    /\ UNCHANGED <<rtol>>
    /\ UNCHANGED <<fnewt>>
    /\ UNCHANGED <<opts>>
    /\ UNCHANGED <<output_index>>
    /\ UNCHANGED <<tlist>>
    /\ UNCHANGED <<LU>>
    /\ UNCHANGED <<f0>>
    /\ UNCHANGED wvars

\* an iteration with t >= tf: the body does nothing
ForSkip ==
    /\ pc = "for"
    /\ i < options.maxsteps
    /\ ~RLt(t, tf)
    /\ i' = i + 1
    /\ UNCHANGED <<kind, problem, options, pc, error, t, tf, h, oldh, oldoldh, hacc,
                   err, olderr, theta, curiter, first, rejected, curjac,
                   needjac, needLU, itfail, k, statistics, oldt, tnew, tc,
                   calls, attempts, taken>>
    /\ UNCHANGED <<yc, col_poly>>
    /\ UNCHANGED <<Z>>
    /\ UNCHANGED <<scaling>>
    /\ UNCHANGED <<rtol>>
    /\ UNCHANGED <<fnewt>>
    /\ UNCHANGED <<opts>>
    /\ UNCHANGED <<output_index>>
    /\ UNCHANGED <<tlist>>
    /\ UNCHANGED <<LU>>
    /\ UNCHANGED <<f0>>
    /\ UNCHANGED wvars

\* next() after a yield of ID_PY_OK: self._first = False, next iteration
Resume ==
    /\ pc = "yield_ok"
    /\ first' = FALSE
    /\ i' = i + 1
    /\ pc' = "for"
    /\ UNCHANGED <<kind, problem, options, error, t, tf, h, oldh, oldoldh, hacc, err,
                   olderr, theta, curiter, rejected, curjac, needjac, needLU,
                   itfail, k, statistics, oldt, tnew, tc, calls, attempts, taken>>
    /\ UNCHANGED <<yc, col_poly>>
    /\ UNCHANGED <<Z>>
    /\ UNCHANGED <<scaling>>
    /\ UNCHANGED <<rtol>>
    /\ UNCHANGED <<fnewt>>
    /\ UNCHANGED <<opts>>
    /\ UNCHANGED <<output_index>>
    /\ UNCHANGED <<tlist>>
    /\ UNCHANGED <<LU>>
    /\ UNCHANGED <<f0>>
    /\ UNCHANGED wvars

-----------------------------------------------------------------------------
(* newton: one pass of the loop "for k in range(20)" per action            *)

\* the environment may still reject or fail an attempt
CanDisturb == statistics.nerrfails + statistics.nnfails < MaxDisturbances

\* if self._needjac: self._jac = self.jacobian(t,y)
JacobianCalled == needjac

\* if self._needLU (jacobian sets it): the three LU decompositions
LUCalled == needjac \/ needLU

\* self._curjac after the head of the pass
CurjacNow == curjac \/ JacobianCalled

\* statistics after the head of the pass
StatsHead ==
    [statistics EXCEPT !.njacs = @ + (IF JacobianCalled THEN 1 ELSE 0),
                       !.nlus = @ + (IF LUCalled THEN 1 ELSE 0)]

\* the factors kept after the head of the pass: under "if self._needLU" they
\* are computed from alpha/h, beta/h, gamma/h and self._jac, the Jacobian
\* numbered by njacs
LUHead == IF LUCalled THEN [h |-> h, jac |-> StatsHead.njacs] ELSE LU

\* dyth = fac_con*newnrm*theta**(newt-(i+1)-1)/fnewt, c = i+1 iterations done
Dyth(r, th, c) == RMul(r, RPow(th, options.newt - c - 1))

\* the theta left by c iterations: abs(thet) unless a second iteration ran
ThetaAfter(c, th) == IF c = 1 THEN RAbs(options.thet) ELSE th

\* the pass goes on after iteration c: no break at that iteration
NoBreak(c, th, r) ==
    /\ c > 1 => RLt(th, R(99, 100)) /\ RLt(Dyth(r, th, c), R(1, 1))
    /\ RLt(R(1, 1), r)

\* the pass ends converged at iteration c
Converges(c, th, r) ==
    /\ c > 1 => RLt(th, R(99, 100)) /\ RLt(Dyth(r, th, c), R(1, 1))
    /\ RLe(r, R(1, 1))

\* qnewt**(-1.0/m) on the values whose m-th root is rational
RootInv(q, m) == CHOOSE s \in SlowRoots : RPow(RInv(s), m) = q

\* 0.8*qnewt**(-1.0/(4.0+newt-(i+1)-1))*h with qnewt = max(1e-4, min(20, dyth))
SlowShrink(dyth, c) ==
    LET qnewt == RMax(R(1, 10000), RMin(R(20, 1), dyth))
    IN  RMul(RMul(R(4, 5), RootInv(qnewt, 4 + options.newt - c - 1)), h)

\* values of dyth >= 1 the environment produces at iteration c
SlowDyths(c) ==
    {d \in {RPow(RInv(s), 4 + options.newt - c - 1) : s \in SlowRoots} :
        RLe(d, R(20, 1))}

\* a failed pass that always asks for a new Jacobian
FailFlagsMut == [needjac |-> TRUE, needLU |-> TRUE]

\* the flags after a failed pass: the Jacobian is kept if it is current
FailFlags ==
    IF CurjacNow
    THEN [needjac |-> FALSE, needLU |-> TRUE]
    ELSE [needjac |-> TRUE, needLU |-> TRUE]

\* a loop that gives up one pass early
RangeExhaustedMut(n) == n >= NewtonRestarts - 1

\* "for k in range(20)" has no pass left after n passes: its else clause runs
RangeExhausted(n) == n >= NewtonRestarts

\* _Radau5DAE divides self._scaling by h**(index-1) before each of the n
\* norms it takes (one per Newton iteration, one per error estimate);
\* _Radau5ODE uses the base scaling as it is
NormDivisions(n) == IF kind = "DAE" THEN n ELSE 0

\* self._Z after calc_start_values: on the first step the start values are
\* new arrays of zeros; later "Z = self._Z" is filled in place with the
\* values extrapolated from _col_poly
StartValues ==
    IF first THEN Z ELSE [what |-> "start", of |-> statistics.nsteps]

\* "else: #Iteration failed" of the pass, and the raise after the 20th
NewtonFail(hn, th, c) ==
    /\ itfail' = TRUE
    /\ curiter' = c
    /\ theta' = th
    /\ statistics' = [StatsHead EXCEPT !.nnfails = @ + 1]
    /\ rejected' = TRUE
    /\ h' = IF RLe(R(99, 100), th) THEN RDiv(hn, R(2, 1)) ELSE hn
    /\ curjac' = CurjacNow
    /\ needjac' = FailFlags.needjac
    /\ needLU' = FailFlags.needLU
    /\ k' = k + 1
    /\ attempts' = attempts + 1
    /\ IF RangeExhausted(k + 1)
       THEN pc' = "error" /\ error' = "newton"
       ELSE pc' = "newton" /\ error' = error
    /\ UNCHANGED <<kind, problem, options, t, tf, oldh, oldoldh, hacc, err, olderr,
                   first, i, oldt, tnew, tc, calls, taken>>
    /\ UNCHANGED <<yc, col_poly>>
    /\ Z' = StartValues
    /\ scaling' = scaling + NormDivisions(c)
    /\ UNCHANGED <<rtol>>
    /\ UNCHANGED <<fnewt>>
    /\ UNCHANGED <<opts>>
    /\ UNCHANGED <<output_index>>
    /\ UNCHANGED <<tlist>>
    /\ LU' = LUHead
    /\ UNCHANGED <<f0>>
    /\ UNCHANGED wvars

\* theta >= 0.99 at iteration c: "Not convergence, abort"
NewtonDiverged(c, th) ==
    /\ pc = "newton"
    /\ h.n # 0
    /\ problem = "divergent" \/ CanDisturb
    /\ c > 1
    /\ ~RLt(th, R(99, 100))
    /\ NewtonFail(h, th, c)

\* dyth >= 1 at iteration c: "Too slow convergence"
NewtonTooSlow(c, th, dyth) ==
    /\ pc = "newton"
    /\ h.n # 0
    /\ problem = "regular" /\ CanDisturb
    /\ c > 1
    /\ RLt(th, R(99, 100))
    /\ RLe(R(1, 1), dyth)
    /\ NewtonFail(SlowShrink(dyth, c), th, c)

\* all newt iterations ran without a break: the else clause of the for loop
NewtonExhausted(th, r) ==
    /\ pc = "newton"
    /\ h.n # 0
    /\ problem = "regular" /\ CanDisturb
    /\ NoBreak(options.newt, th, r)
    /\ NewtonFail(h, ThetaAfter(options.newt, th), options.newt)

\* the pass ends with _itfail false: _Z is committed, newton returns
NewtonConverged(c, th, r) ==
    /\ pc = "newton"
    /\ h.n # 0
    /\ problem = "regular"
    /\ Converges(c, th, r)
    /\ itfail' = FALSE
    /\ curiter' = c
    /\ theta' = ThetaAfter(c, th)
    /\ statistics' = StatsHead
    /\ curjac' = CurjacNow
    /\ needjac' = FALSE
    /\ needLU' = FALSE
    /\ pc' = "errtest"
    /\ UNCHANGED <<kind, problem, options, error, t, tf, h, oldh, oldoldh, hacc, err,
                   olderr, first, rejected, i, k, oldt, tnew, tc, calls,
                   attempts, taken>>
    /\ UNCHANGED <<yc, col_poly>>
    /\ Z' = [what |-> "solution", of |-> statistics.nsteps + 1]
    /\ scaling' = scaling + NormDivisions(c)
    /\ UNCHANGED <<rtol>>
    /\ UNCHANGED <<fnewt>>
    /\ UNCHANGED <<opts>>
    /\ UNCHANGED <<output_index>>
    /\ UNCHANGED <<tlist>>
    /\ LU' = LUHead
    /\ UNCHANGED <<f0>>
    /\ UNCHANGED wvars

\* min(abs(diag(U1))) < eps after a factorization: the singular-matrix raise
NewtonSingular ==
    /\ pc = "newton"
    /\ h.n # 0
    /\ problem = "regular"
    /\ LUCalled
    /\ statistics' = StatsHead
    /\ curjac' = CurjacNow
    /\ needjac' = FALSE
    /\ needLU' = FALSE
    /\ curiter' = 0
    /\ theta' = RAbs(options.thet)
    /\ pc' = "error"
    /\ error' = "singular"
    /\ UNCHANGED <<kind, problem, options, t, tf, h, oldh, oldoldh, hacc, err, olderr,
                   first, rejected, itfail, i, k, oldt, tnew, tc, calls,
                   attempts, taken>>
    /\ UNCHANGED <<yc, col_poly>>
    /\ UNCHANGED <<Z>>
    /\ UNCHANGED <<scaling>>
    /\ UNCHANGED <<rtol>>
    /\ UNCHANGED <<fnewt>>
    /\ UNCHANGED <<opts>>
    /\ UNCHANGED <<output_index>>
    /\ UNCHANGED <<tlist>>
    /\ LU' = LUHead
    /\ UNCHANGED <<f0>>
    /\ UNCHANGED wvars

\* a pass entered with h = 0: alpha/h, beta/h, gamma/h and 1/h are not
\* finite, the call ends in a numerical exception
NewtonZeroStep ==
    /\ pc = "newton"
    /\ h.n = 0
    /\ curiter' = 0
    /\ theta' = RAbs(options.thet)
    /\ pc' = "error"
    /\ error' = "nonfinite"
    /\ UNCHANGED <<kind, problem, options, t, tf, h, oldh, oldoldh, hacc, err, olderr,
                   first, rejected, curjac, needjac, needLU, itfail, i, k,
                   statistics, oldt, tnew, tc, calls, attempts, taken>>
    /\ UNCHANGED <<yc, col_poly>>
    /\ UNCHANGED <<Z>>
    /\ UNCHANGED <<scaling>>
    /\ UNCHANGED <<rtol>>
    /\ UNCHANGED <<fnewt>>
    /\ UNCHANGED <<opts>>
    /\ UNCHANGED <<output_index>>
    /\ UNCHANGED <<tlist>>
    /\ UNCHANGED <<LU>>
    /\ UNCHANGED <<f0>>
    /\ UNCHANGED wvars

-----------------------------------------------------------------------------
(* interpolate                                                             *)

\* the body of interpolate on the values of _yc, _newt, _oldh and _col_poly:
\* yout = _yc + s*(...) with s = (t - _newt)/_oldh
yout(time, c, newt, ho, pol) ==
    [yc |-> c, s |-> RDiv(RSub(time, newt), ho), Z |-> pol]

\* interpolate evaluated relative to the start of the step, _oldt
interpolateMut(time) ==
    [yc |-> yc, s |-> RDiv(RSub(time, oldt), oldh), Z |-> col_poly]

\* _Radau5ODE.interpolate: yout = _yc + s*(...) with s = (t - _newt)/_oldh;
\* the result is given by the solution it starts from, s and the polynomial
interpolate(time) == yout(time, yc, tnew, oldh, col_poly)

-----------------------------------------------------------------------------
(* _step after newton returned: estimate_error and the error test          *)

\* estimate_error: e1 is the first estimate; after a rejection or on the
\* first step, if e1 >= 1, the estimate is recomputed and e2 is returned
estimate_error(e1, e2) ==
    IF (rejected \/ first) /\ RLe(R(1, 1), e1) THEN e2 ELSE e1

\* e2 is read only when the second estimate is computed
SecondPassUsed(e1, e2) ==
    ((rejected \/ first) /\ RLe(R(1, 1), e1)) \/ e2 = e1

\* an error test with the threshold 10
RejectedMut(e) == RLt(R(10, 1), e)

\* if self._err > 1.0: #Step was rejected.
Rejected(e) == RLt(R(1, 1), e)

\* the flags after a rejected attempt
RejectFlags ==
    IF curjac \/ curiter = 1
    THEN [needjac |-> FALSE, needLU |-> TRUE]
    ELSE [needjac |-> TRUE, needLU |-> TRUE]

\* the if branch of the error test: the attempt is rejected
ErrorTestReject(e1, e2) ==
    LET e == estimate_error(e1, e2)
        adj == adjust_stepsize(e, FALSE)
    IN  /\ pc = "errtest"
        /\ SecondPassUsed(e1, e2)
        /\ Rejected(e)
        /\ CanDisturb
        /\ err' = e
        /\ rejected' = TRUE
        /\ statistics' = [statistics EXCEPT !.nerrfails = @ + 1]
        /\ attempts' = attempts + 1
        /\ IF adj.raise
           THEN /\ pc' = "error"
                /\ error' = "stepsize"
                /\ UNCHANGED <<h, needjac, needLU, k>>
           ELSE /\ pc' = "newton"
                /\ error' = error
                /\ h' = adj.h
                /\ needjac' = RejectFlags.needjac
                /\ needLU' = RejectFlags.needLU
                /\ k' = 0
        /\ UNCHANGED <<kind, problem, options, t, tf, oldh, oldoldh, hacc, olderr,
                       theta, curiter, first, curjac, itfail, i, oldt, tnew,
                       tc, calls, taken>>
        /\ UNCHANGED <<yc, col_poly>>
        /\ UNCHANGED <<Z>>
        /\ scaling' = scaling + NormDivisions(1)
        /\ UNCHANGED <<rtol>>
        /\ UNCHANGED <<fnewt>>
        /\ UNCHANGED <<opts>>
        /\ UNCHANGED <<output_index>>
        /\ UNCHANGED <<tlist>>
        /\ UNCHANGED <<LU>>
        /\ UNCHANGED <<f0>>
        /\ UNCHANGED wvars

\* the test with a strict comparison
ThetaSmallMut == RLt(theta, options.thet)

\* the test "theta <= thet" of the reuse policy; the DAE variant adds
\* "or self._curiter == 1"
ThetaSmall ==
    RLe(theta, options.thet) \/ (kind = "DAE" /\ curiter = 1)

\* the flags after an accepted step without the override for thet < 0
AcceptFlagsMut(hn) ==
    IF oldh = hn /\ ThetaSmall
    THEN [needjac |-> FALSE, needLU |-> FALSE]
    ELSE IF ThetaSmall
    THEN [needjac |-> FALSE, needLU |-> TRUE]
    ELSE [needjac |-> TRUE, needLU |-> TRUE]

\* the flags after an accepted step whose next step size is hn
AcceptFlags(hn) ==
    IF RLt(options.thet, R(0, 1))
    THEN [needjac |-> TRUE, needLU |-> TRUE]
    ELSE IF oldh = hn /\ ThetaSmall
    THEN [needjac |-> FALSE, needLU |-> FALSE]
    ELSE IF ThetaSmall
    THEN [needjac |-> FALSE, needLU |-> TRUE]
    ELSE [needjac |-> TRUE, needLU |-> TRUE]

\* self.h = min(self.h,ht) if self._rejected else ht
NextH(ht) == IF rejected THEN RMin(h, ht) ELSE ht

\* if self.h > N.abs(tf-t): self.h = N.abs(tf-t)
ClampToEnd(x, tn) ==
    IF RLt(RAbs(RSub(tf, tn)), x) THEN RAbs(RSub(tf, tn)) ELSE x

\* _f0 after an accepted step from t to tn: _Radau5ODE calls
\* self.f(self._f0,tn,yn), _Radau5DAE self._ode_f(t,N.append(yn,ydn))
F0Accepted(tn) ==
    [t |-> IF kind = "DAE" THEN t ELSE tn, y |-> statistics.nsteps + 1]

\* the index integrate's loop "while output_list[output_index] <= res[1]"
\* stops at, from index idx (0-based) with res[1] = upto; the IndexError
\* past the end of the list ends the loop as well
NewIndex(idx, upto) ==
    CHOOSE j \in idx..Len(output_list) :
        /\ \A m \in (idx + 1)..j : RLe(output_list[m], upto)
        /\ j = Len(output_list) \/ RLt(upto, output_list[j + 1])

\* what the loop appends to tlist and ylist when it runs from index from to
\* index to: the points and self.interpolate at them, which reads the
\* _yc, _newt, _oldh and _col_poly the step has just stored
Appended(from, to, c, newt, ho, pol) ==
    [m \in 1..(to - from) |->
        [t |-> output_list[from + m],
         y |-> yout(output_list[from + m], c, newt, ho, pol)]]

\* the else branch of the error test, the return of _step and the rest of
\* the loop body of step_generator up to the yield
ErrorTestAccept(e1, e2) ==
    LET e == estimate_error(e1, e2)
        adj == adjust_stepsize(e, TRUE)
        tn == RAdd(t, h)
        hn == NextH(adj.h)
    IN  /\ pc = "errtest"
        /\ SecondPassUsed(e1, e2)
        /\ ~Rejected(e)
        /\ err' = e
        /\ statistics' = [statistics EXCEPT !.nsteps = @ + 1]
        /\ attempts' = attempts + 1
        /\ oldoldh' = oldh
        /\ oldh' = h
        /\ oldt' = t
        /\ tnew' = tn
        /\ hacc' = h
        /\ taken' = taken + 1
        /\ IF adj.raise
           THEN /\ pc' = "error"
                /\ error' = "stepsize"
                /\ UNCHANGED <<t, tc, h, rejected, curjac, needjac, needLU,
                               olderr, yc, col_poly>>
           ELSE /\ error' = error
                /\ yc' = statistics'.nsteps
                /\ col_poly' = statistics'.nsteps
                /\ rejected' = FALSE
                /\ curjac' = FALSE
                /\ needjac' = AcceptFlags(hn).needjac
                /\ needLU' = AcceptFlags(hn).needLU
                /\ olderr' = RMax(e, R(1, 100))
                /\ t' = tn
                /\ tc' = tn
                /\ h' = ClampToEnd(hn, tn)
                /\ pc' = IF RLt(tn, tf) THEN "yield_ok" ELSE "complete"
        /\ UNCHANGED <<kind, problem, options, tf, theta, curiter, first, itfail, i,
                       k, calls>>
        /\ UNCHANGED <<Z>>
        /\ scaling' = scaling + NormDivisions(1)
        /\ UNCHANGED <<rtol>>
        /\ UNCHANGED <<fnewt>>
        /\ UNCHANGED <<opts>>
        /\ output_index' = IF adj.raise THEN output_index
                           ELSE NewIndex(output_index, tn)
        /\ \E to \in {output_index'}, c \in {yc'}, pol \in {col_poly'} :
              tlist' = IF adj.raise THEN tlist
                       ELSE tlist \o Appended(output_index, to, c, tn, h, pol)
        /\ UNCHANGED <<LU>>
        /\ f0' = F0Accepted(tn)
        /\ UNCHANGED wvars

-----------------------------------------------------------------------------
(* Radau5ODE / Radau5DAE: options                                          *)

\* str.upper() on the strings assigned
Upper(x) ==
    CASE x = "dense" -> "DENSE"
      [] x = "Sparse" -> "SPARSE"
      [] x = "klu" -> "KLU"
      [] OTHER -> x

\* Radau5ODE._set_linear_solver / Radau5DAE._set_linear_solver
set_linear_solver(v) ==
    /\ solver = "Radau5"
    /\ pc = "constructed"
    /\ method' = "linear_solver"
    /\ user_exc' = "None"
    /\ logged' = "nothing"
    /\ IF kind = "DAE" \/ ~v.str \/ Upper(v.v) \notin {"DENSE", "SPARSE"}
       THEN /\ error' = "Radau_Exception"
            /\ UNCHANGED linear_solver
       ELSE /\ error' = "none"
            /\ linear_solver' = Upper(v.v)
    /\ UNCHANGED <<kind, pc, statistics, calls, solver, problem_info, usejac,
                   rad_memory, py_err, flag, max_steps>>
    /\ UNCHANGED <<radau5_args>>
    /\ solout_call' = NoSolout
    /\ UNCHANGED pyvars

\* Radau_Common.usejac assigned by the user
set_usejac(b) ==
    /\ solver = "Radau5"
    /\ pc \in {"constructed", "initialized"}
    /\ usejac # b
    /\ method' = "usejac"
    /\ user_exc' = "None"
    /\ logged' = "nothing"
    /\ error' = "none"
    /\ usejac' = b
    /\ UNCHANGED <<kind, pc, statistics, calls, solver, problem_info,
                   linear_solver, rad_memory, py_err, flag, max_steps>>
    /\ UNCHANGED <<radau5_args>>
    /\ solout_call' = NoSolout
    /\ UNCHANGED pyvars

\* a test that lets every int through
MaxStepsRejectedMut(v) == ~v.int

\* the two tests of ODE._set_max_steps that raise ODE_Exception
MaxStepsRejected(v) == ~v.int \/ v.v < 1

\* ODE._set_max_steps
set_max_steps(v) ==
    /\ solver = "Radau5"
    /\ pc = "constructed"
    /\ method' = "maxsteps"
    /\ user_exc' = "None"
    /\ logged' = "nothing"
    /\ IF MaxStepsRejected(v)
       THEN /\ error' = "ODE_Exception"
            /\ UNCHANGED max_steps
       ELSE /\ error' = "none"
            /\ max_steps' = v
    /\ UNCHANGED <<kind, pc, statistics, calls, solver, problem_info, usejac,
                   linear_solver, rad_memory, py_err, flag>>
    /\ UNCHANGED <<radau5_args>>
    /\ solout_call' = NoSolout
    /\ UNCHANGED pyvars

\* ODE._get_max_steps
get_max_steps == max_steps

-----------------------------------------------------------------------------
(* Radau5ODE.initialize / Radau5DAE.initialize                             *)

ZeroStatistics ==
    [nsteps |-> 0, nerrfails |-> 0, nnfails |-> 0, njacs |-> 0, nlus |-> 0]

\* the sanity checks without the upper limit
NnzErrorMut(nnz) ==
    IF ~nnz.int THEN TRUE ELSE nnz.v < 0

\* the sanity checks on jac_fcn_nnz, in the order of the code; dim is 1
NnzError(nnz) ==
    IF ~nnz.int THEN TRUE
    ELSE IF nnz.v < 0 THEN TRUE
    ELSE nnz.v > Dim * Dim + Dim

\* initialize without the fallback to the dense solver
SolverAfterFallbackMut == linear_solver

\* the option after "if not self.usejac: self.linear_solver = 'DENSE'"
SolverAfterFallback ==
    IF linear_solver = "SPARSE" /\ ~usejac THEN "DENSE" ELSE linear_solver

\* int(self.options["linear_solver"] == "SPARSE")
SparseLU(ls) == IF ls = "SPARSE" THEN 1 ELSE 0

\* Radau5ODE.initialize; import_ok: the compiled module can be imported,
\* ret: the first negative return of rad_memory.initialize and the set_*
\* calls, 0 if there is none
initializeODE(import_ok, ret) ==
    LET ls == SolverAfterFallback
    IN  /\ solver = "Radau5"
        /\ kind = "ODE"
        /\ pc \in {"constructed", "raised"}
        /\ method' = "initialize"
        /\ user_exc' = "None"
        /\ statistics' = ZeroStatistics
        /\ logged' = IF import_ok /\ ~(usejac /\ ~problem_info.jac) /\ ls # linear_solver
                     THEN "Switching to 'DENSE' linear solver"
                     ELSE "nothing"
        /\ IF ~import_ok
           THEN /\ error' = "Radau_Exception"
                /\ pc' = "raised"
                /\ UNCHANGED <<linear_solver, rad_memory>>
           ELSE IF usejac /\ ~problem_info.jac
           THEN /\ error' = "Radau_Exception"
                /\ pc' = "raised"
                /\ UNCHANGED <<linear_solver, rad_memory>>
           ELSE IF ls = "SPARSE" /\ NnzError(problem_info.jac_fcn_nnz)
           THEN /\ error' = "Radau_Exception"
                /\ pc' = "raised"
                /\ linear_solver' = ls
                /\ UNCHANGED rad_memory
           ELSE IF ret < 0
           THEN /\ error' = "Radau5Error"
                /\ pc' = "raised"
                /\ linear_solver' = ls
                /\ rad_memory' = [state |-> "finalized", sparseLU |-> SparseLU(ls)]
           ELSE /\ error' = "none"
                /\ pc' = "initialized"
                /\ linear_solver' = ls
                /\ rad_memory' = [state |-> "live", sparseLU |-> SparseLU(ls)]
        /\ UNCHANGED <<kind, calls, solver, problem_info, usejac, py_err, flag,
                       max_steps>>
        /\ UNCHANGED <<radau5_args>>
        /\ solout_call' = NoSolout
        /\ UNCHANGED pyvars

\* Radau5DAE.initialize
initializeDAE(import_ok) ==
    /\ solver = "Radau5"
    /\ kind = "DAE"
    /\ pc \in {"constructed", "raised"}
    /\ method' = "initialize"
    /\ user_exc' = "None"
    /\ statistics' = ZeroStatistics
    /\ logged' = "nothing"
    /\ IF ~import_ok
       THEN /\ error' = "Radau_Exception"
            /\ pc' = "raised"
       ELSE /\ error' = "none"
            /\ pc' = "initialized"
    /\ UNCHANGED <<kind, calls, solver, problem_info, usejac, linear_solver,
                   rad_memory, py_err, flag, max_steps>>
    /\ UNCHANGED <<radau5_args>>
    /\ solout_call' = NoSolout
    /\ UNCHANGED pyvars

-----------------------------------------------------------------------------
(* Radau5ODE.integrate / Radau5DAE.integrate                               *)

StatusODEMut(raw) ==
    IF raw = 0 THEN "ID_PY_COMPLETE" ELSE "ID_PY_EVENT"

\* "Checking return" of Radau5ODE.integrate: the status, "raise" for the
\* else branch
StatusODE(raw) ==
    IF raw = 0 THEN "ID_PY_COMPLETE"
    ELSE IF raw = 1 THEN "ID_PY_EVENT"
    ELSE "raise"

\* "Checking return" of Radau5DAE.integrate
StatusDAE(raw) ==
    IF raw = 1 THEN "ID_PY_COMPLETE"
    ELSE IF raw = 2 THEN "ID_PY_EVENT"
    ELSE "raise"

\* IJAC  = 1 if self.usejac else 0
IJAC(uj) == IF uj THEN 1 ELSE 0

\* jac_dummy: a lambda if not usejac, else self._jacobian (Radau5ODE) or
\* self.problem.jac (Radau5DAE)
jac_dummy(uj) ==
    IF ~uj THEN "lambda" ELSE IF kind = "DAE" THEN "problem.jac" ELSE "_jacobian"

\* usejac left as it is by Radau5DAE.integrate
DisableJacMut == usejac

\* if self.usejac: self.usejac=False
DisableJac == IF usejac THEN FALSE ELSE usejac

\* the calls of _solout that can be the last one of a run: event_locator is
\* called only with state_events, and a run that ends in a failing callback
\* is not described by a call of _solout
SoloutFor(run) ==
    IF run.fails # "none"
    THEN {[flag |-> "ID_PY_OK", rc |-> FALSE, report |-> "False"]}
    ELSE IF problem_info.state_events THEN SoloutCalls
    ELSE {so \in SoloutCalls : so.flag = "ID_PY_OK"}

\* the value Radau5ODE._solout returns when no other exception is raised
solout(evflag, rc, report) ==
    LET ret0 == 0
        ret1 == IF problem_info.state_events /\ evflag = "ID_PY_EVENT" THEN 1 ELSE ret0
        ret2 == IF problem_info.state_events /\ evflag = "negative" THEN -1 ELSE ret1
    IN  IF rc
        THEN IF report = "TimeLimitExceeded" THEN -2
             ELSE IF report = "True" THEN 1
             ELSE ret2
        ELSE ret2

\* the callbacks the solver can call in this configuration
CanFail(c) ==
    CASE c = "jac" -> usejac
      [] c \in {"state_events"} -> problem_info.state_events
      [] OTHER -> TRUE

\* Radau5ODE.integrate.  initialize: opts["initialize"]; ev0: the first
\* evaluation of state_events in set_problem_data raises; run: what the
\* compiled solver does
integrateODE(initialize, ev0, run, so) ==
    LET n == calls + 1
        exc == IF run.fails # "none" THEN UserError(n) ELSE "None"
        status == StatusODE(run.flag)
    IN  /\ solver = "Radau5"
        /\ kind = "ODE"
        /\ pc \in {"initialized", "returned"}
        /\ calls < MaxCalls
        /\ CanFail(run.fails)
        /\ ev0 => initialize /\ problem_info.state_events
        /\ method' = "integrate"
        /\ logged' = "nothing"
        /\ calls' = n
        /\ IF usejac /\ ~problem_info.jac
           THEN /\ error' = "Radau_Exception"
                /\ pc' = "raised"
                /\ flag' = NoFlag
                /\ user_exc' = "None"
                /\ UNCHANGED <<py_err, rad_memory, statistics>>
           ELSE IF ev0
           THEN /\ py_err' = UserError(n)
                /\ user_exc' = UserError(n)
                /\ error' = py_err'
                /\ pc' = "raised"
                /\ flag' = NoFlag
                /\ UNCHANGED <<rad_memory, statistics>>
           ELSE /\ py_err' = exc
                /\ user_exc' = exc
                /\ statistics' = [statistics EXCEPT !.nsteps = @ + 1]
                /\ flag' = [set |-> TRUE, raw |-> run.flag,
                            status |-> IF status = "raise" THEN "none" ELSE status]
                /\ IF status = "raise"
                   THEN /\ rad_memory' = [rad_memory EXCEPT !.state = "finalized"]
                        /\ error' = IF py_err' # "None" THEN py_err' ELSE "Radau5Error"
                        /\ pc' = "raised"
                   ELSE /\ error' = "none"
                        /\ pc' = "returned"
                        /\ UNCHANGED rad_memory
        /\ UNCHANGED <<kind, solver, problem_info, usejac, linear_solver, max_steps>>
        /\ radau5_args' = IF flag'.set
                           THEN [IJAC |-> IJAC(usejac), jac |-> jac_dummy(usejac)]
                           ELSE radau5_args
        /\ solout_call' = IF flag'.set /\ run.fails = "none"
                          THEN [flag |-> so.flag, ret |-> solout(so.flag, so.rc, so.report)]
                          ELSE NoSolout
        /\ UNCHANGED pyvars

\* Radau5DAE.integrate
integrateDAE(initialize, ev0, run) ==
    LET n == calls + 1
        status == StatusDAE(run.flag)
    IN  /\ solver = "Radau5"
        /\ kind = "DAE"
        /\ pc \in {"initialized", "returned"}
        /\ calls < MaxCalls
        /\ ev0 => initialize /\ problem_info.state_events
        /\ method' = "integrate"
        /\ calls' = n
        /\ usejac' = DisableJac
        /\ logged' = IF usejac
                     THEN "Jacobians are not currently supported, disabling."
                     ELSE "nothing"
        /\ IF ev0
           THEN /\ user_exc' = UserError(n)
                /\ error' = UserError(n)
                /\ pc' = "raised"
                /\ flag' = NoFlag
                /\ UNCHANGED statistics
           ELSE /\ user_exc' = IF run.fails # "none" THEN UserError(n) ELSE "None"
                /\ flag' = [set |-> TRUE, raw |-> run.flag,
                            status |-> IF status = "raise" THEN "none" ELSE status]
                /\ IF status = "raise"
                   THEN /\ error' = "Radau5Error"
                        /\ pc' = "raised"
                        /\ UNCHANGED statistics
                   ELSE /\ error' = "none"
                        /\ pc' = "returned"
                        /\ statistics' = [statistics EXCEPT !.nsteps = @ + 1]
        /\ UNCHANGED <<kind, solver, problem_info, linear_solver, rad_memory,
                       py_err, max_steps>>
        /\ radau5_args' = IF flag'.set
                           THEN [IJAC |-> IJAC(usejac'), jac |-> jac_dummy(usejac')]
                           ELSE radau5_args
        /\ solout_call' = NoSolout
        /\ UNCHANGED pyvars

-----------------------------------------------------------------------------
(* The specification                                                       *)

Next ==
    \/ \E initialize \in BOOLEAN, d \in IF pc = "idle" THEN TfFirst ELSE TfMore :
          StepGeneratorStart(initialize, RAdd(t, d))
    \/ MaxStepsRaise
    \/ StepEnter
    \/ ForSkip
    \/ Resume
    \/ \E c \in IterChoices(options.newt), th \in Thetas : NewtonDiverged(c, th)
    \/ /\ pc = "newton"
       /\ \E c \in IterChoices(options.newt), th \in Thetas :
             \E dyth \in SlowDyths(c) : NewtonTooSlow(c, th, dyth)
    \/ \E th \in Thetas, r \in Ratios : NewtonExhausted(th, r)
    \/ \E c \in IterChoices(options.newt), th \in Thetas, r \in Ratios :
          NewtonConverged(c, th, r)
    \/ NewtonSingular
    \/ NewtonZeroStep
    \/ \E e1 \in Errs, e2 \in Errs : ErrorTestReject(e1, e2)
    \/ \E e1 \in Errs, e2 \in Errs : ErrorTestAccept(e1, e2)
    \/ \E r \in RtolValues : set_rtol(r)
    \/ solver = "Radau5" /\ \E v \in LinearSolverInputs : set_linear_solver(v)
    \/ \E b \in BOOLEAN : set_usejac(b)
    \/ solver = "Radau5" /\ \E v \in MaxStepsInputs : set_max_steps(v)
    \/ /\ solver = "Radau5"
       /\ \E import_ok \in BOOLEAN, ret \in InitReturns : initializeODE(import_ok, ret)
    \/ \E import_ok \in BOOLEAN : initializeDAE(import_ok)
    \/ /\ solver = "Radau5" /\ kind = "ODE"
       /\ \E initialize \in BOOLEAN, ev0 \in BOOLEAN, run \in RunsODE :
             \E so \in SoloutFor(run) : integrateODE(initialize, ev0, run, so)
    \/ /\ solver = "Radau5" /\ kind = "DAE"
       /\ \E initialize \in BOOLEAN, ev0 \in BOOLEAN, run \in RunsDAE :
             integrateDAE(initialize, ev0, run)

Spec == Init /\ [][Next]_vars

-----------------------------------------------------------------------------
(* Claims                                                                  *)

\* a step was accepted by the last transition
\* a step of the Python integrator was accepted
StepAccepted == solver = "_Radau5" /\ statistics'.nsteps = statistics.nsteps + 1

\* C1: a step attempt is accepted (nsteps incremented, t advanced to t+h)
\* only if the error estimate of that attempt is <= 1; an attempt whose
\* estimate is > 1 is rejected: nerrfails is incremented, t and nsteps stay,
\* and the attempt is retried unless the controller ends the call.
C1_AcceptOnlyIfErrLeOne ==
    [][ /\ StepAccepted => pc = "errtest" /\ RLe(err', R(1, 1))
        /\ t' # t => StepAccepted /\ t' = RAdd(t, h) /\ tnew' = t'
        /\ (pc = "errtest" /\ RLt(R(1, 1), err')) =>
              /\ statistics'.nerrfails = statistics.nerrfails + 1
              /\ statistics'.nsteps = statistics.nsteps
              /\ t' = t
              /\ \/ pc' = "newton" /\ k' = 0
                 \/ pc' = "error" /\ error' = "stepsize" ]_vars

\* C1 witness: a step was accepted after a rejected attempt
C1_Witness ==
    /\ pc \in {"yield_ok", "complete"}
    /\ statistics.nsteps = 1
    /\ statistics.nerrfails >= 1
    /\ RLe(err, R(1, 1))

\* C2: within one call of step_generator the number of step attempts
\* (accepted + rejected by the error test + failed Newton passes) never
\* exceeds maxsteps.
C2_AttemptsCapped == attempts <= options.maxsteps

\* C3: the max-steps error is raised only when maxsteps steps have been
\* taken in this call and t is still below tf.
C3_MaxStepsError ==
    error = "maxsteps" => taken = options.maxsteps /\ RLt(t, tf)

\* C4: every accepted step handed back by step_generator ends at a time
\* <= tf, and the step handed back with ID_PY_COMPLETE ends at tf.
C4_NeverPastTf ==
    /\ pc \in {"yield_ok", "complete"} => RLe(t, tf)
    /\ pc = "complete" => t = tf

\* C5: every step attempt is made with h <= maxh.
C5_AttemptBelowMaxh == pc = "newton" => RLe(h, options.maxh)

\* C6: every step attempt is made with h >= eps.
C6_AttemptAboveEps == pc = "newton" => RLe(eps, h)

\* C7: after an attempt is rejected by the error test, the next attempt uses
\* a strictly smaller h.
C7_RejectShrinks ==
    [][ (pc = "errtest" /\ pc' = "newton") => RLt(h', h) ]_vars

\* the error estimates with which adjust_stepsize can be called: > 1 after a
\* rejection, <= 1 with predict=True
AdjustCalls ==
    {c \in [e : Errs, predict : BOOLEAN] : c.predict = ~Rejected(c.e)}

\* fac1*h <= x <= fac2*h
WithinFacs(x) ==
    /\ RLe(RMul(options.fac1, h), x)
    /\ RLe(x, RMul(options.fac2, h))

\* C8: every value returned by adjust_stepsize lies in [fac1*h, fac2*h].
C8_Original ==
    pc = "errtest" =>
        \A c \in AdjustCalls :
            LET adj == adjust_stepsize(c.e, c.predict)
            IN  ~adj.raise => WithinFacs(adj.h)

\* C8 as amended: except on the first step with err >= 1 (where h/10 is
\* returned), every value returned by adjust_stepsize lies in
\* [fac1*h, fac2*h], or is the ceiling maxh when maxh is below fac1*h.
C8_Amended ==
    pc = "errtest" =>
        \A c \in AdjustCalls :
            LET adj == adjust_stepsize(c.e, c.predict)
            IN  (~adj.raise /\ ~(first /\ RLe(R(1, 1), c.e))) =>
                    \/ WithinFacs(adj.h)
                    \/ adj.h = options.maxh /\ RLt(adj.h, RMul(options.fac1, h))

\* C8 witness: adjust_stepsize is about to be called after the first step,
\* in a state where both clamps bind for some error estimate
C8_Witness ==
    /\ pc = "errtest"
    /\ ~first
    /\ \E c \in AdjustCalls :
          adjust_stepsize(c.e, c.predict).h = RMul(options.fac1, h)
    /\ \E c \in AdjustCalls :
          adjust_stepsize(c.e, c.predict).h = RMul(options.fac2, h)

\* C9: with thet < 0, after every accepted step need_jac and need_LU are
\* both true, every step starts with both true (so with a Jacobian
\* evaluation), and njacs equals nsteps.
C9_NoReuse ==
    (RLt(options.thet, R(0, 1)) /\ pc \in {"for", "yield_ok", "complete"}) =>
        /\ needjac
        /\ needLU
        /\ statistics.njacs = statistics.nsteps

\* C9 witness: with thet < 0 two steps were accepted, with a rejected or
\* failed attempt among them
C9_Witness ==
    /\ RLt(options.thet, R(0, 1))
    /\ pc \in {"yield_ok", "complete"}
    /\ statistics.nsteps = 2
    /\ statistics.nerrfails + statistics.nnfails >= 1

\* C10: with thet infinite, after every accepted step njacs <= nsteps.
C10_JacsAtMostSteps ==
    (IsInf(options.thet) /\ pc \in {"for", "yield_ok", "complete"}) =>
        statistics.njacs <= statistics.nsteps

\* C10 witness: with thet infinite, a second step was accepted for which
\* the Jacobian was evaluated again after a failed Newton pass
C10_Witness ==
    /\ IsInf(options.thet)
    /\ pc \in {"yield_ok", "complete"}
    /\ statistics.nsteps = 2
    /\ statistics.njacs = 2
    /\ statistics.nnfails >= 1

\* C11: whenever step_generator hands back an accepted step (t_new, y_new),
\* _newt, _oldh, _yc and _col_poly belong to that step, and interpolate(t_new)
\* is evaluated at s = 0 on that step's solution, i.e. returns y_new.
C11_InterpolateAtYield ==
    pc \in {"yield_ok", "complete"} =>
        /\ tnew = t
        /\ tc = t
        /\ oldh.n # 0
        /\ RAdd(oldt, oldh) = t
        /\ col_poly = statistics.nsteps
        /\ interpolate(t) = [yc |-> statistics.nsteps, s |-> R(0, 1),
                             Z |-> statistics.nsteps]

\* C11 witness: a second step is handed back, taken after rejected or failed
\* attempts, with a step size other than that of the first step
C11_Witness ==
    /\ pc \in {"yield_ok", "complete"}
    /\ statistics.nsteps = 2
    /\ statistics.nerrfails >= 1
    /\ statistics.nnfails >= 1
    /\ oldh # oldoldh

\* C12: when Radau5ODE.initialize returns, linear_solver = 'SPARSE' implies
\* usejac; if SPARSE was selected with usejac false, initialize sets the option
\* to 'DENSE', logs the switch and initialises rad_memory as dense.
C12_SparseNeedsJacobian ==
    [][ (method' = "initialize" /\ kind = "ODE" /\ error' = "none") =>
            /\ linear_solver' = "SPARSE" => usejac'
            /\ rad_memory'.state = "live"
            /\ rad_memory'.sparseLU = SparseLU(linear_solver')
            /\ (linear_solver = "SPARSE" /\ ~usejac) =>
                  /\ linear_solver' = "DENSE"
                  /\ logged' = "Switching to 'DENSE' linear solver"
                  /\ rad_memory'.sparseLU = 0 ]_vars

\* C12 witness: initialize has returned after switching from SPARSE to DENSE
C12_Witness ==
    /\ method = "initialize"
    /\ error = "none"
    /\ logged = "Switching to 'DENSE' linear solver"
    /\ linear_solver = "DENSE"
    /\ ~usejac
    /\ rad_memory = [state |-> "live", sparseLU |-> 0]

\* jac_fcn_nnz is not an int, is negative or exceeds dim**2 + dim
InvalidNnz ==
    \/ ~problem_info.jac_fcn_nnz.int
    \/ problem_info.jac_fcn_nnz.v < 0
    \/ problem_info.jac_fcn_nnz.v > Dim * Dim + Dim

UserErrors == {UserError(n) : n \in 1..4}

C14_OriginalExceptionSurfaces ==
    [][method' = "integrate" =>
          /\ user_exc' # "None" => error' = user_exc'
          /\ error' \in UserErrors => error' = user_exc']_vars

\* C15: when Radau5ODE.initialize or Radau5ODE.integrate ends by raising
\* after rad_memory has been created, rad_memory has been finalized.
C15_FinalizedOnError ==
    [][(/\ kind = "ODE"
        /\ method' \in {"initialize", "integrate"}
        /\ error' # "none"
        /\ rad_memory'.state # "none") => rad_memory'.state = "finalized"]_vars

\* C16: step_generator yields ID_PY_OK (pc = "yield_ok") for every accepted
\* step with t < tf and ID_PY_COMPLETE (pc = "complete") for the first
\* accepted step with t >= tf, after which the call yields nothing more (the
\* next step is a new call, or an assignment of the user that takes no step);
\* integrate of Radau5ODE / Radau5DAE returns normally only with status
\* ID_PY_COMPLETE or ID_PY_EVENT, and every other flag of the solver ends the
\* call with an exception and no status.
ReturnFlags == IF kind = "ODE" THEN {0, 1} ELSE {1, 2}

C16_StatusProtocol ==
    [][ /\ (StepAccepted /\ pc' # "error") =>
              pc' = IF RLt(t', tf) THEN "yield_ok" ELSE "complete"
        /\ pc' = "yield_ok" => StepAccepted /\ RLt(t', tf)
        /\ (pc' = "complete" /\ pc # "complete") => StepAccepted /\ ~RLt(t', tf)
        /\ pc = "complete" =>
              calls' = calls + 1 \/ (pc' = pc /\ t' = t /\ statistics' = statistics)
        /\ method' = "integrate" =>
              /\ error' = "none" =>
                    /\ pc' = "returned"
                    /\ flag'.set
                    /\ flag'.status \in {"ID_PY_COMPLETE", "ID_PY_EVENT"}
              /\ (flag'.set /\ flag'.raw \notin ReturnFlags) =>
                    /\ error' # "none"
                    /\ pc' = "raised"
                    /\ flag'.status = "none" ]_vars

\* C16 witness: the solver of Radau5ODE returned the flag 2, which is no
\* status of that class, and integrate raised
C16_Witness ==
    /\ kind = "ODE"
    /\ method = "integrate"
    /\ flag.set
    /\ flag.raw = 2
    /\ pc = "raised"
    /\ error = "Radau5Error"

\* C17: the Newton process of a step attempt is bounded: at most 20 passes
\* of the outer loop, each with at most newt iterations; newton returns (the
\* error test is reached) only after a pass that converged, with _itfail
\* false; and "Newton iteration failed" is raised exactly when all 20 passes
\* have failed.
C17_NewtonBounded ==
    /\ k <= NewtonRestarts
    /\ curiter <= options.newt
    /\ pc = "errtest" => ~itfail /\ k < NewtonRestarts /\ curiter >= 1
    /\ error = "newton" <=> k = NewtonRestarts
    /\ k = NewtonRestarts =>
          /\ pc = "error"
          /\ itfail
          /\ statistics.nnfails >= NewtonRestarts

\* C17 witness: the 20th pass failed and the exception was raised
C17_Witness ==
    /\ solver = "_Radau5"
    /\ k = NewtonRestarts
    /\ error = "newton"
    /\ itfail

\* C18: assigning a non-int or a value < 1 to ODE.maxsteps raises
\* ODE_Exception and leaves the stored value; an assignment that does not
\* raise stores its value; so the value read back is always an int >= 1,
\* the last valid one assigned.
C18_MaxStepsPositiveInt ==
    [][ /\ get_max_steps'.int /\ get_max_steps'.v >= 1
        /\ (method' = "maxsteps" /\ error' = "ODE_Exception") =>
              get_max_steps' = get_max_steps
        /\ get_max_steps' # get_max_steps =>
              /\ method' = "maxsteps"
              /\ error' = "none"
              /\ get_max_steps' \in MaxStepsInputs ]_vars

\* C18 witness: a valid assignment was followed by a rejected one and the
\* valid value is still stored
C18_Witness ==
    /\ method = "maxsteps"
    /\ error = "ODE_Exception"
    /\ get_max_steps = [int |-> TRUE, v |-> 5]

\* C19: after an accepted step with thet >= 0, in both variants and whatever
\* the number of Newton iterations: _needjac is false iff theta <= thet, and
\* _needLU is false iff theta <= thet and the new step size (self.h at the
\* test) equals _oldoldh, the size of the step before the accepted one.
C19_ReuseAfterAccept ==
    [][(StepAccepted /\ pc' # "error" /\ ~RLt(options.thet, R(0, 1))) =>
          LET hn == NextH(adjust_stepsize(err', TRUE).h)
          IN  /\ ~needjac' <=> RLe(theta', options.thet)
              /\ ~needLU' <=> (RLe(theta', options.thet) /\ hn = oldoldh')]_vars

\* C19 witness: a step of the DAE variant was accepted after a Newton pass
\* of one iteration, with a new step size: the Jacobian is kept, the
\* factorization is not
C19_Witness ==
    /\ kind = "DAE"
    /\ ~RLt(options.thet, R(0, 1))
    /\ pc \in {"yield_ok", "complete"}
    /\ curiter = 1
    /\ RLe(theta, options.thet)
    /\ ~needjac
    /\ needLU

\* C20: after a rejected attempt of either kind (the error test rejected
\* the step, or a Newton pass did not converge) _needLU is true, and
\* _needjac is false iff the Jacobian is current or the pass ran exactly one
\* iteration.
AttemptRejected ==
    \/ pc = "errtest" /\ pc' = "newton"
    \/ pc = "newton" /\ statistics'.nnfails = statistics.nnfails + 1

C20_ReuseAfterReject ==
    [][AttemptRejected =>
          /\ needLU'
          /\ ~needjac' <=> (curjac' \/ curiter' = 1)]_vars

\* C21: between step attempts _Z and _col_poly describe the most recent
\* accepted step: a rejected attempt, a failed Newton pass and the
\* computation of the starting values leave them as the accepted step
\* left them.
C21_ZAndPOfLastAccepted ==
    (statistics.nsteps >= 1 /\ pc \in {"for", "newton", "yield_ok", "complete"}) =>
        /\ Z = [what |-> "solution", of |-> statistics.nsteps]
        /\ col_poly = statistics.nsteps

\* C22: in the DAE variant every Newton norm and every error estimate of
\* a step uses the base scaling of the step divided by h**(index-1) exactly
\* once, however many iterations, restarts and rejections the step has.
C22_ScalingDividedOnce ==
    [][(kind = "DAE" /\ scaling' # scaling /\ pc \in {"newton", "errtest"}) =>
          scaling' = 1]_vars

\* C23: while a call of step_generator runs, a Newton tolerance left at its
\* automatic setting is max(10*eps/rtol, min(0.03, sqrt(rtol))) for the rtol
\* of that call, also when rtol was changed since the previous call; a
\* tolerance set by the user is used as it is.
C23_FnewtFollowsRtol ==
    pc \in {"for", "newton", "errtest", "yield_ok"} =>
        fnewt = IF options.fnewt = R(0, 1) THEN AutoFnewt(rtol) ELSE options.fnewt

\* C24: when step_generator is entered with opts["initialize"] true, the
\* control state is that of a freshly constructed solver, also on a solver
\* that has integrated before: _first and _rejected true, _needjac and
\* _needLU true, _curjac false, h = _oldh = inith, _olderr = 1 and a zero
\* collocation polynomial.
C24_ReinitialisedPerCall ==
    (pc = "for" /\ i = 0 /\ opts.initialize) =>
        /\ first
        /\ rejected
        /\ needjac
        /\ needLU
        /\ ~curjac
        /\ h = options.inith
        /\ oldh = options.inith
        /\ olderr = R(1, 1)
        /\ col_poly = 0

\* C25: with an output_list, over consecutive calls of integrate that share
\* their opts, every requested time up to the time reached is returned
\* exactly once and in increasing order, each interpolated within the
\* accepted step that contains it: -1 <= s <= 0 for s = (time - _newt)/_oldh.
C25_CommunicationPoints ==
    /\ \A m \in 1..(Len(tlist) - 1) : RLt(tlist[m].t, tlist[m + 1].t)
    /\ \A m \in 1..Len(tlist) :
          RLe(R(-1, 1), tlist[m].y.s) /\ RLe(tlist[m].y.s, R(0, 1))
    /\ pc \in {"yield_ok", "complete"} =>
          \A m \in 1..Len(output_list) :
              RLe(output_list[m], t) => \E n \in 1..Len(tlist) : tlist[n].t = output_list[m]

\* C26: Radau5DAE.integrate called with usejac true logs that Jacobians are
\* not supported and sets usejac to false; whenever it calls the compiled
\* solver it passes IJAC = 0 and the dummy instead of problem.jac; it leaves
\* usejac false, and it raises no Radau_Exception for the request.
C26_JacobianDowngraded ==
    [][(method' = "integrate" /\ kind = "DAE") =>
          /\ ~usejac'
          /\ usejac => logged' = "Jacobians are not currently supported, disabling."
          /\ flag'.set => radau5_args' = [IJAC |-> 0, jac |-> "lambda"]
          /\ error' # "Radau_Exception"]_vars

C26_Witness ==
    /\ kind = "DAE"
    /\ method = "integrate"
    /\ logged = "Jacobians are not currently supported, disabling."
    /\ ~usejac
    /\ flag.set
    /\ radau5_args = [IJAC |-> 0, jac |-> "lambda"]

\* C27: a Newton pass that runs with the stored LU factors (_needjac and
\* _needLU both false) finds factors that were computed with the current h
\* and the current Jacobian.
C27_FactorsNotStale ==
    (pc = "newton" /\ h.n # 0 /\ ~LUCalled) =>
        LU = [h |-> h, jac |-> statistics.njacs]

C29_EventFailureNotMasked ==
    (solout_call.flag = "negative" /\ problem_info.state_events) =>
        solout_call.ret < 0

\* C30: whenever a Newton pass of a step attempt is about to run, _f0 is the
\* right-hand side evaluated at the current time and solution of the step.
C30_F0AtCurrentPoint ==
    pc = "newton" => f0 = [t |-> t, y |-> yc]

====
